---- MODULE Spec2Model ----
(***************************************************************************)
(* UPI payment QR codes: the URI codec (parse_upi_string /                 *)
(* create_upi_string), the UPIQRHandler class of qr_handler.py and the     *)
(* Flask routes of app.py (decode, generate, modify).                      *)
(*                                                                         *)
(* A Python str is a sequence of one-character strings.  A Python dict is  *)
(* a sequence of <<key, value>> pairs with distinct keys, in insertion     *)
(* order.  None is the record NoneVal; a value that may be None is tagged. *)
(***************************************************************************)
EXTENDS Integers, Sequences, FiniteSets, TLC

VARIABLES
    program,    \* which entry point runs: "codec" calls, the "handler" script, the "app"
    cPhase,     \* codec calls: "idle", "serialized", "reparsed", "parsed"
    cRec,       \* codec calls: the dict given to create_upi_string
    cText,      \* codec calls: the str given to parse_upi_string
    cUri,       \* codec calls: [app, handler]: what create_upi_string returned
    cParsed,    \* codec calls: [app, handler]: what parse_upi_string returned
    upi_data,   \* UPIQRHandler.upi_data
    hFiles,     \* the handler's working directory: path -> file content
    hCall,      \* the handler's last method call, its arguments and result
    uploads,    \* app.config['UPLOAD_FOLDER']: file name -> file content
    generated,  \* app.config['GENERATED_FOLDER']: file name -> file content
    clock,      \* int(time.time())
    req         \* the requests being served: id -> position, locals, response

vars == <<program, cPhase, cRec, cText, cUri, cParsed, upi_data, hFiles, hCall,
          uploads, generated, clock, req>>

codecVars == <<cPhase, cRec, cText, cUri, cParsed>>
handlerVars == <<upi_data, hFiles, hCall>>
appVars == <<uploads, generated, clock, req>>

-----------------------------------------------------------------------------
(* Python values *)

NoneVal == [t |-> "None"]
Some(v) == [t |-> "val", v |-> v]
IsNone(x) == x.t = "None"

-----------------------------------------------------------------------------
(* str *)

RECURSIVE Concat(_)
\* ''.join(parts)
Concat(parts) ==
    IF parts = <<>> THEN <<>> ELSE Head(parts) \o Concat(Tail(parts))

RECURSIVE Join(_, _)
\* sep.join(parts)
Join(sep, parts) ==
    IF parts = <<>> THEN <<>>
    ELSE IF Len(parts) = 1 THEN parts[1]
    ELSE parts[1] \o sep \o Join(sep, Tail(parts))

\* s.startswith(p)
StartsWith(s, p) == Len(s) >= Len(p) /\ SubSeq(s, 1, Len(p)) = p

\* s.find(c) + 1: the first position of character c in s, 0 when absent
Find(s, c) ==
    IF \E i \in 1..Len(s) : s[i] = c
    THEN CHOOSE i \in 1..Len(s) : s[i] = c /\ \A j \in 1..(i - 1) : s[j] # c
    ELSE 0

RECURSIVE Split(_, _)
\* s.split(c): always at least one part
Split(s, c) ==
    LET i == Find(s, c) IN
    IF i = 0 THEN <<s>>
    ELSE <<SubSeq(s, 1, i - 1)>> \o Split(SubSeq(s, i + 1, Len(s)), c)

\* s.split(c, 1): one or two parts
Split1(s, c) ==
    LET i == Find(s, c) IN
    IF i = 0 THEN <<s>>
    ELSE <<SubSeq(s, 1, i - 1), SubSeq(s, i + 1, Len(s))>>

\* s.replace(a, b) for single characters
Replace(s, a, b) == [i \in 1..Len(s) |-> IF s[i] = a THEN b ELSE s[i]]

-----------------------------------------------------------------------------
(* urllib.parse.quote / unquote *)

\* The ASCII characters of the model that quote() escapes, with the two hex
\* digits of their code.
EscapeTable ==
    << <<" ", "2", "0">>, <<"#", "2", "3">>, <<"%", "2", "5">>,
       <<"&", "2", "6">>, <<"+", "2", "B">>, <<"=", "3", "D">>,
       <<":", "3", "A">>, <<"?", "3", "F">>, <<"@", "4", "0">> >>

\* quote()'s always-safe characters (letters, digits, "_.-~") and its default
\* safe="/", as far as the model's alphabet has them.  The digits and letters
\* here are also the ones a percent-escape of the model is written with.
SafeChars == {"a", "m", "p", "x", "z", "A", "B", "D", "E", "F",
              "0", "1", "2", "3", "4", "5", "6", "/", ".", "-", "_", "~"}

HexDigits == {"0", "1", "2", "3", "4", "5", "6", "A", "B", "D", "E", "F", "a"}

UpperHex(h) == IF h = "a" THEN "A" ELSE h

\* The character U+FFFD that errors='replace' gives for a byte that is no
\* character of the table.
ReplacementChar == "\\uFFFD"

\* quote(c) that lets "%" through as a safe character
QuoteChar_PercentSafe(c) ==
    IF c \in SafeChars \cup {"%"} THEN <<c>>
    ELSE IF \E i \in 1..Len(EscapeTable) : EscapeTable[i][1] = c
    THEN LET e == EscapeTable[CHOOSE i \in 1..Len(EscapeTable) :
                                 EscapeTable[i][1] = c]
         IN <<"%", e[2], e[3]>>
    ELSE <<"%", "E", "F", "%", "B", "F", "%", "B", "D">>

\* quote(c) for one character
QuoteChar(c) ==
    IF c \in SafeChars THEN <<c>>
    ELSE IF \E i \in 1..Len(EscapeTable) : EscapeTable[i][1] = c
    THEN LET e == EscapeTable[CHOOSE i \in 1..Len(EscapeTable) :
                                 EscapeTable[i][1] = c]
         IN <<"%", e[2], e[3]>>
    ELSE <<"%", "E", "F", "%", "B", "F", "%", "B", "D">>

\* urllib.parse.quote(s)
Quote(s) == Concat([i \in 1..Len(s) |-> QuoteChar(s[i])])

\* the character whose code is the hex pair h1 h2
CharOfHex(h1, h2) ==
    LET u1 == UpperHex(h1)
        u2 == UpperHex(h2)
    IN  IF \E i \in 1..Len(EscapeTable) :
               EscapeTable[i][2] = u1 /\ EscapeTable[i][3] = u2
        THEN EscapeTable[CHOOSE i \in 1..Len(EscapeTable) :
                            EscapeTable[i][2] = u1 /\ EscapeTable[i][3] = u2][1]
        ELSE IF u1 = "4" /\ u2 = "1" THEN "A"
        ELSE IF u1 = "6" /\ u2 = "1" THEN "a"
        ELSE IF u1 = "6" /\ u2 = "D" THEN "m"
        ELSE ReplacementChar

RECURSIVE Unquote_DropMalformed(_)
\* unquote(s) that drops a "%" two hex digits do not follow
Unquote_DropMalformed(s) ==
    IF s = <<>> THEN <<>>
    ELSE IF s[1] = "%" /\ Len(s) >= 3 /\ s[2] \in HexDigits /\ s[3] \in HexDigits
    THEN <<CharOfHex(s[2], s[3])>> \o Unquote_DropMalformed(SubSeq(s, 4, Len(s)))
    ELSE IF s[1] = "%" THEN Unquote_DropMalformed(Tail(s))
    ELSE <<s[1]>> \o Unquote_DropMalformed(Tail(s))

RECURSIVE Unquote(_)
\* urllib.parse.unquote(s): a "%" followed by two hex digits is the character
\* of that code; any other "%" stays as it is.
Unquote(s) ==
    IF s = <<>> THEN <<>>
    ELSE IF s[1] = "%" /\ Len(s) >= 3 /\ s[2] \in HexDigits /\ s[3] \in HexDigits
    THEN <<CharOfHex(s[2], s[3])>> \o Unquote(SubSeq(s, 4, Len(s)))
    ELSE <<s[1]>> \o Unquote(Tail(s))

-----------------------------------------------------------------------------
(* dict *)

DictKeys(d) == {d[i][1] : i \in 1..Len(d)}
DictHas(d, k) == k \in DictKeys(d)
DictIndex(d, k) == CHOOSE i \in 1..Len(d) : d[i][1] = k
DictGet(d, k) == d[DictIndex(d, k)][2]

\* d[k] = v: replaces the value in place, or appends the key
DictSet(d, k, v) ==
    IF DictHas(d, k) THEN [d EXCEPT ![DictIndex(d, k)] = <<k, v>>]
    ELSE Append(d, <<k, v>>)

\* the items of a dict as a set: d1 == d2 in Python is DictItems(d1) = DictItems(d2)
DictItems(d) == {d[i] : i \in 1..Len(d)}

RECURSIVE DictUpdate(_, _)
\* d.update(other)
DictUpdate(d, other) ==
    IF other = <<>> THEN d
    ELSE DictUpdate(DictSet(d, other[1][1], other[1][2]), Tail(other))

-----------------------------------------------------------------------------
(* The short keys of the URI and the field names of the record, as str *)

K_pa == <<"p", "a">>
K_pn == <<"p", "n">>
K_am == <<"a", "m">>
K_cu == <<"c", "u">>
K_tn == <<"t", "n">>
K_tr == <<"t", "r">>
K_mc == <<"m", "c">>
K_tid == <<"t", "i", "d">>
K_url == <<"u", "r", "l">>
F_payee_address == <<"p", "a", "y", "e", "e", "_", "a", "d", "d", "r", "e", "s", "s">>
F_payee_name == <<"p", "a", "y", "e", "e", "_", "n", "a", "m", "e">>
F_amount == <<"a", "m", "o", "u", "n", "t">>
F_currency == <<"c", "u", "r", "r", "e", "n", "c", "y">>
F_transaction_note == <<"t", "r", "a", "n", "s", "a", "c", "t", "i", "o", "n", "_", "n", "o", "t", "e">>
F_transaction_ref == <<"t", "r", "a", "n", "s", "a", "c", "t", "i", "o", "n", "_", "r", "e", "f">>
F_merchant_code == <<"m", "e", "r", "c", "h", "a", "n", "t", "_", "c", "o", "d", "e">>
F_transaction_id == <<"t", "r", "a", "n", "s", "a", "c", "t", "i", "o", "n", "_", "i", "d">>

UPI_PREFIX == <<"u", "p", "i", ":", "/", "/">>
UPI_PAY == <<"u", "p", "i", ":", "/", "/", "p", "a", "y", "?">>
SCHEME_NO_QUERY == <<"u", "p", "i", ":", "/", "/", "p", "a", "y">>

\* param_mapping of parse_upi_string: short key -> field name
ParseMapping ==
    << <<K_pa, F_payee_address>>,
       <<K_pn, F_payee_name>>,
       <<K_am, F_amount>>,
       <<K_cu, F_currency>>,
       <<K_tn, F_transaction_note>>,
       <<K_tr, F_transaction_ref>>,
       <<K_mc, F_merchant_code>>,
       <<K_tid, F_transaction_id>>,
       <<K_url, K_url>> >>

\* param_mapping of create_upi_string: field name -> short key
CreateMapping ==
    << <<F_payee_address, K_pa>>,
       <<F_payee_name, K_pn>>,
       <<F_amount, K_am>>,
       <<F_currency, K_cu>>,
       <<F_transaction_note, K_tn>>,
       <<F_transaction_ref, K_tr>>,
       <<F_merchant_code, K_mc>>,
       <<F_transaction_id, K_tid>>,
       <<K_url, K_url>> >>

\* mapping.get(key, key)
MapGet(mapping, key) == IF DictHas(mapping, key) THEN DictGet(mapping, key) ELSE key

-----------------------------------------------------------------------------
(* urllib.parse.urlparse(...).query and urllib.parse.parse_qs *)

\* urlparse(url).query for a url that has a scheme: what follows the scheme's
\* ":" is cut at the first "#" (the fragment), and the query is what follows
\* the first "?" of the rest; "" when there is no "?".  (urlparse raises
\* ValueError for an unbalanced "[" in the authority; no text here has one.)
UrlQuery(url) ==
    LET afterScheme == SubSeq(url, Find(url, ":") + 1, Len(url))
        noFragment == Split1(afterScheme, "#")[1]
        parts == Split1(noFragment, "?")
    IN  IF Len(parts) = 2 THEN parts[2] ELSE <<>>

RECURSIVE ParseQslOf(_)
\* parse_qsl's loop over qs.split('&'), keep_blank_values=False,
\* strict_parsing=False: an empty piece, a piece with no "=" and a piece with
\* an empty value are skipped; "+" is a space; name and value are unquoted.
ParseQslOf(pieces) ==
    IF pieces = <<>> THEN <<>>
    ELSE LET nv == Split1(Head(pieces), "=")
             rest == ParseQslOf(Tail(pieces))
         IN  IF Head(pieces) = <<>> \/ Len(nv) # 2 THEN rest
             ELSE IF Len(nv[2]) = 0 THEN rest
             ELSE << <<Unquote(Replace(nv[1], "+", " ")),
                       Unquote(Replace(nv[2], "+", " "))>> >> \o rest

\* urllib.parse.parse_qsl(qs)
ParseQsl(qs) == ParseQslOf(Split(qs, "&"))

RECURSIVE ParseQsFold(_, _)
\* parse_qs's loop: a name seen before gets the value appended to its list
ParseQsFold(pairs, result) ==
    IF pairs = <<>> THEN result
    ELSE LET name == pairs[1][1]
             value == pairs[1][2]
         IN  ParseQsFold(Tail(pairs),
                 IF DictHas(result, name)
                 THEN DictSet(result, name, Append(DictGet(result, name), value))
                 ELSE DictSet(result, name, <<value>>))

\* urllib.parse.parse_qs(qs): a dict from each name to the list of its values
ParseQs(qs) == ParseQsFold(ParseQsl(qs), <<>>)

-----------------------------------------------------------------------------
(* parse_upi_string and create_upi_string *)

\* value[-1]: the last value of the list
FirstValue_Last(value) == value[Len(value)]

\* value[0] if isinstance(value, list) else value
FirstValue(value) == value[1]

RECURSIVE ExtractParams(_, _)
\* for key, value in query_params.items():
\*     upi_params[param_mapping.get(key, key)] = value[0]
ExtractParams(query_params, upi_params) ==
    IF query_params = <<>> THEN upi_params
    ELSE ExtractParams(Tail(query_params),
             DictSet(upi_params, MapGet(ParseMapping, query_params[1][1]),
                     FirstValue(query_params[1][2])))

NOT_UPI == "Not a UPI payment string"

\* app.py parse_upi_string: the pair (upi_params, error)
parse_upi_string(upi_string) ==
    IF ~StartsWith(upi_string, UPI_PREFIX)
    THEN [params |-> NoneVal, error |-> Some(NOT_UPI)]
    ELSE [params |-> Some(ExtractParams(ParseQs(UrlQuery(upi_string)), <<>>)),
          error |-> NoneVal]

\* UPIQRHandler.parse_upi_string: the dict it returns
UPIQRHandler_parse_upi_string(upi_string) ==
    IF ~StartsWith(upi_string, UPI_PREFIX) THEN <<>>
    ELSE ExtractParams(ParseQs(UrlQuery(upi_string)), <<>>)

\* f"{upi_key}={encoded_value}"
QueryPart(key, value) == MapGet(CreateMapping, key) \o <<"=">> \o Quote(value)

RECURSIVE QueryParts(_)
\* app.py create_upi_string's loop: only the non-empty values
QueryParts(upi_params) ==
    IF upi_params = <<>> THEN <<>>
    ELSE (IF upi_params[1][2] # <<>>
          THEN <<QueryPart(upi_params[1][1], upi_params[1][2])>>
          ELSE <<>>) \o QueryParts(Tail(upi_params))

\* app.py create_upi_string
create_upi_string(upi_params) == UPI_PAY \o Join(<<"&">>, QueryParts(upi_params))

RECURSIVE UPIQRHandler_QueryParts(_)
\* UPIQRHandler.create_upi_string's loop: every item
UPIQRHandler_QueryParts(upi_params) ==
    IF upi_params = <<>> THEN <<>>
    ELSE <<QueryPart(upi_params[1][1], upi_params[1][2])>>
         \o UPIQRHandler_QueryParts(Tail(upi_params))

\* UPIQRHandler.create_upi_string
UPIQRHandler_create_upi_string(upi_params) ==
    UPI_PAY \o Join(<<"&">>, UPIQRHandler_QueryParts(upi_params))

-----------------------------------------------------------------------------
(* Calls of the codec functions on bounded inputs *)

MaxFields == 2      \* most items of a dict given to create_upi_string
MaxPairs == 3       \* most "&"-separated pieces of a query given to parse
MaxPieces == 2      \* most pieces a percent-encoded value is put together from

RecognizedFields ==
    {F_payee_address, F_payee_name, F_amount, F_currency, F_transaction_note,
     F_transaction_ref, F_merchant_code, F_transaction_id, K_url}

\* the keys of the dicts: the nine field names, a short key and an unknown key
FieldNames == RecognizedFields \cup {K_am, <<"x">>}

\* the values of the dicts: empty, with reserved characters, with "%" and
\* with "+" (which quote() escapes although the grammar does not reserve them)
RawValues ==
    {<<>>, <<"a", " ", "&", "=">>, <<"%", "4", "1">>, <<"+", "/", "@">>}

\* the keys of the dicts with several items: two recognized fields, the short
\* key one of them is written as, and the unknown key
MixedNames == {F_payee_address, F_amount, K_am, <<"x">>}

RECURSIVE DictsOfLen(_, _)
\* the dicts with n items over the keys in names, in every insertion order
DictsOfLen(names, n) ==
    IF n = 0 THEN {<<>>}
    ELSE {Append(d, <<k, v>>) :
            d \in DictsOfLen(names, n - 1), k \in names, v \in RawValues}

\* the dicts given to create_upi_string: every key alone, and up to MaxFields
\* distinct keys of MixedNames together
Records ==
    {<<<<k, v>>>> : k \in FieldNames, v \in RawValues}
    \cup {d \in UNION {DictsOfLen(MixedNames, n) : n \in 0..MaxFields} :
            Cardinality(DictKeys(d)) = Len(d)}

\* the pieces of a query with repeated keys, empty values and a bare key
DupPieces ==
    {K_am \o <<"=", "1">>, K_am \o <<"=", "2">>, K_am \o <<"=">>, K_am,
     F_amount \o <<"=", "3">>, K_pa \o <<"=", "1">>, <<>>}

\* the pieces of a percent-encoded value: plain, well-formed escapes,
\* a truncated escape, a non-hex escape, a bare "%", a "+"
EscPieces ==
    {<<"a">>, <<"%", "4", "1">>, <<"%", "2", "6">>, <<"%", "4">>,
     <<"%", "z", "z">>, <<"%">>, <<"+">>}

RECURSIVE SeqsUpTo(_, _)
\* the sequences over S of length at most n
SeqsUpTo(S, n) ==
    IF n = 0 THEN {<<>>}
    ELSE LET shorter == SeqsUpTo(S, n - 1)
         IN  shorter \cup {Append(q, x) : q \in shorter, x \in S}

DupTexts == {UPI_PAY \o Join(<<"&">>, q) : q \in SeqsUpTo(DupPieces, MaxPairs)}

EscValues == {Concat(q) : q \in SeqsUpTo(EscPieces, MaxPieces)}

EscTexts ==
    {UPI_PAY \o K_am \o <<"=">> \o v : v \in EscValues}
    \cup {UPI_PAY \o K_pa \o <<"=", "1", "&">> \o K_am \o <<"=">> \o v : v \in EscValues}

\* texts around the scheme prefix: other schemes, another case, a shorter
\* prefix, the scheme with no query, with an empty query, with a fragment
SchemeHeads ==
    {<<>>, <<"h", "t", "t", "p", ":", "/", "/", "x">>,
     <<"U", "P", "I", ":", "/", "/", "p", "a", "y">>,
     <<"u", "p", "i", ":", "/", "p", "a", "y">>,
     <<" ">> \o UPI_PREFIX \o <<"p", "a", "y">>,
     UPI_PREFIX, UPI_PREFIX \o <<"p", "a", "y">>}

SchemeTails ==
    {<<>>, <<"?">>, <<"?">> \o K_am \o <<"=", "1">>,
     <<"#", "?">> \o K_am \o <<"=", "1">>,
     <<"?">> \o K_am \o <<"=", "1", "#">> \o K_pa \o <<"=", "2">>}

SchemeTexts == {h \o t : h \in SchemeHeads, t \in SchemeTails}

Texts == DupTexts \cup EscTexts \cup SchemeTexts

NoCall == [app |-> [params |-> NoneVal, error |-> NoneVal], handler |-> <<>>]
NoUri == [app |-> <<>>, handler |-> <<>>]

\* self.upi_data after UPIQRHandler.parse_upi_string(upi_string): assigned
\* only past the scheme check
UPIQRHandler_parse_upi_data(upi_string, old) ==
    IF ~StartsWith(upi_string, UPI_PREFIX) THEN old
    ELSE UPIQRHandler_parse_upi_string(upi_string)

\* no codec call made
CodecIdle ==
    /\ cPhase = "idle"
    /\ cRec = <<>>
    /\ cText = <<>>
    /\ cUri = NoUri
    /\ cParsed = NoCall

\* no UPIQRHandler made
HandlerIdle ==
    /\ upi_data = <<>>
    /\ hFiles = <<>>
    /\ hCall = [op |-> "none", n |-> 0]

\* the app not started
AppIdle ==
    /\ uploads = <<>>
    /\ generated = <<>>
    /\ clock = 0
    /\ req = <<>>

InitCodec ==
    /\ program = "codec"
    /\ CodecIdle
    /\ HandlerIdle
    /\ AppIdle

\* create_upi_string(r), by app.py and by UPIQRHandler
Serialize(r) ==
    /\ cPhase = "idle"
    /\ cPhase' = "serialized"
    /\ cRec' = r
    /\ cUri' = [app |-> create_upi_string(r),
                handler |-> UPIQRHandler_create_upi_string(r)]
    /\ UNCHANGED <<program, cText, cParsed, handlerVars, appVars>>

\* parse_upi_string of what create_upi_string returned
Reparse ==
    /\ cPhase = "serialized"
    /\ cPhase' = "reparsed"
    /\ cParsed' = [app |-> parse_upi_string(cUri.app),
                   handler |-> UPIQRHandler_parse_upi_string(cUri.handler)]
    /\ upi_data' = UPIQRHandler_parse_upi_data(cUri.handler, upi_data)
    /\ UNCHANGED <<program, cRec, cText, cUri, hFiles, hCall, appVars>>

\* parse_upi_string(t), by app.py and by UPIQRHandler
Parse(t) ==
    /\ cPhase = "idle"
    /\ cPhase' = "parsed"
    /\ cText' = t
    /\ cParsed' = [app |-> parse_upi_string(t),
                   handler |-> UPIQRHandler_parse_upi_string(t)]
    /\ upi_data' = UPIQRHandler_parse_upi_data(t, upi_data)
    /\ UNCHANGED <<program, cRec, cUri, hFiles, hCall, appVars>>

NextCodec ==
    \/ \E r \in Records : Serialize(r)
    \/ Reparse
    \/ \E t \in Texts : Parse(t)

SpecCodec == InitCodec /\ [][NextCodec]_vars

-----------------------------------------------------------------------------
(* Image files and the optical collaborators (cv2.imread, pyzbar decode,
   qrcode + PIL save) *)

\* What a file holds: bytes cv2.imread cannot read ("unreadable"), a readable
\* picture with no QR symbol ("blank"), a QR symbol whose payload is the str
\* data ("qr"), a QR symbol whose payload is not UTF-8 ("badutf8"), and a PNG
\* that was opened for writing and not completed ("partial").
Unreadable == [kind |-> "unreadable", data |-> <<>>]
Blank == [kind |-> "blank", data |-> <<>>]
BadUtf8 == [kind |-> "badutf8", data |-> <<>>]
Partial == [kind |-> "partial", data |-> <<>>]
QrOf(data) == [kind |-> "qr", data |-> data]

\* cv2.imread(path) is None: no such file, or bytes that are no image
ImreadIsNone(files, path) ==
    \/ ~DictHas(files, path)
    \/ DictGet(files, path).kind \in {"unreadable", "partial"}

COULD_NOT_READ == "Could not read image"
NO_QR_FOUND == "No QR code found in image"
UTF8_ERROR == "'utf-8' codec can't decode byte 0xff in position 0: invalid start byte"

\* decode_qr_code that reports an image with no QR symbol as unreadable
decode_qr_code_OneMessage(files, image_path) ==
    IF ImreadIsNone(files, image_path) \/ DictGet(files, image_path).kind = "blank"
    THEN [qr_data |-> NoneVal, error |-> Some(COULD_NOT_READ)]
    ELSE IF DictGet(files, image_path).kind = "badutf8"
    THEN [qr_data |-> NoneVal, error |-> Some(UTF8_ERROR)]
    ELSE [qr_data |-> Some(DictGet(files, image_path).data), error |-> NoneVal]

\* app.py decode_qr_code(image_path): the pair (qr_data, error)
decode_qr_code(files, image_path) ==
    IF ImreadIsNone(files, image_path)
    THEN [qr_data |-> NoneVal, error |-> Some(COULD_NOT_READ)]
    ELSE IF DictGet(files, image_path).kind = "blank"
    THEN [qr_data |-> NoneVal, error |-> Some(NO_QR_FOUND)]
    ELSE IF DictGet(files, image_path).kind = "badutf8"
    THEN [qr_data |-> NoneVal, error |-> Some(UTF8_ERROR)]
    ELSE [qr_data |-> Some(DictGet(files, image_path).data), error |-> NoneVal]

\* UPIQRHandler.decode_qr(image_path): the decoded str, or None
UPIQRHandler_decode_qr(files, image_path) ==
    IF ImreadIsNone(files, image_path) THEN NoneVal
    ELSE IF DictGet(files, image_path).kind = "blank" THEN NoneVal
    ELSE IF DictGet(files, image_path).kind = "badutf8" THEN NoneVal
    ELSE Some(DictGet(files, image_path).data)

\* How an encoding ends: the image is saved ("ok"); qr.add_data / qr.make /
\* make_image or the open of the file raises, nothing written ("raise_before");
\* img.save raises after it opened the file ("raise_in_save").
EncodeOutcomes == {"ok", "raise_before", "raise_in_save"}

\* The files after img.save(path).  PIL opens the path "w+b", which empties
\* a file that is there; when the write raises it removes the file only if
\* this save created it.
SaveImage(files, path, data, outcome) ==
    IF outcome = "ok" THEN DictSet(files, path, QrOf(data))
    ELSE IF outcome = "raise_before" THEN files
    ELSE IF DictHas(files, path) THEN DictSet(files, path, Partial)
    ELSE files

-----------------------------------------------------------------------------
(* UPIQRHandler: the calls a script makes, one after the other *)

IN_PNG == "input_qr.png"
OUT_PNG == "regenerated_qr.png"

HandlerPaths == {IN_PNG, OUT_PNG}

UPI_TEXT == UPI_PAY \o K_pa \o <<"=", "a", "&">> \o K_am \o <<"=", "1">>
OTHER_TEXT == <<"h", "t", "t", "p", ":", "/", "/", "x">>

\* the payloads of the QR symbols: of the scheme, with and without a query,
\* not of the scheme, and empty
Payloads == {UPI_TEXT, SCHEME_NO_QUERY, OTHER_TEXT, <<>>}

InputImages == {Unreadable, Blank, BadUtf8} \cup {QrOf(t) : t \in Payloads}

\* modify_params: None, or a dict
ModifyParams ==
    {NoneVal, Some(<<>>),
     Some(<< <<F_amount, <<"2">> >> >>),
     Some(<< <<F_amount, <<>> >> >>),
     Some(<< <<F_transaction_note, <<"a", " ", "m">> >>, <<F_amount, <<>> >> >>),
     Some(<< <<K_am, <<"5">> >> >>)}

\* if modify_params: a dict that is not None and not empty
Truthy(modify_params) == ~IsNone(modify_params) /\ modify_params.v # <<>>

MaxCalls == 2       \* most calls the script makes

InitHandler ==
    /\ program = "handler"
    /\ CodecIdle
    /\ AppIdle
    /\ upi_data = <<>>
    /\ hFiles \in {<< <<IN_PNG, img>> >> : img \in InputImages}
    /\ hCall = [op |-> "none", n |-> 0]

\* new_data: always the URI made of upi_params
NewData_AlwaysUri(is_upi, upi_params, decoded_data) ==
    UPIQRHandler_create_upi_string(upi_params)

\* new_data: the URI made of upi_params for a UPI string, else the decoded
\* data as it is
NewData(is_upi, upi_params, decoded_data) ==
    IF is_upi THEN UPIQRHandler_create_upi_string(upi_params) ELSE decoded_data

\* decode_and_encode's locals when it returns, given the encoder's outcome
DecodeAndEncode(files, old_upi_data, input_image, output_image, modify_params, outcome) ==
    LET decoded_data == UPIQRHandler_decode_qr(files, input_image)
        none == [decoded_data |-> decoded_data, is_upi |-> FALSE,
                 original |-> <<>>, upi_params |-> <<>>, new_data |-> <<>>,
                 encoded |-> FALSE, result |-> FALSE,
                 files |-> files, upi_data |-> old_upi_data]
    IN  IF IsNone(decoded_data) THEN none
        ELSE IF decoded_data.v = <<>> THEN none     \* if not decoded_data
        ELSE
        LET is_upi == StartsWith(decoded_data.v, UPI_PREFIX)
            original == IF is_upi THEN UPIQRHandler_parse_upi_string(decoded_data.v)
                        ELSE <<>>
            upi_params == IF Truthy(modify_params)
                          THEN DictUpdate(original, modify_params.v)
                          ELSE original
            new_data == NewData(is_upi, upi_params, decoded_data.v)
        IN  [decoded_data |-> decoded_data, is_upi |-> is_upi,
             original |-> original,
             upi_params |-> IF is_upi THEN upi_params ELSE <<>>,
             new_data |-> new_data,
             encoded |-> TRUE, result |-> (outcome = "ok"),
             files |-> SaveImage(files, output_image, new_data, outcome),
             \* self.upi_data is the dict parse_upi_string returned, the one
             \* update() then changes
             upi_data |-> IF is_upi THEN upi_params ELSE old_upi_data]

\* handler.decode_qr(image_path)
H_decode_qr(image_path) ==
    /\ program = "handler"
    /\ hCall.n < MaxCalls
    /\ hCall' = [op |-> "decode_qr", n |-> hCall.n + 1, image_path |-> image_path,
                 image |-> IF DictHas(hFiles, image_path)
                           THEN Some(DictGet(hFiles, image_path)) ELSE NoneVal,
                 result |-> UPIQRHandler_decode_qr(hFiles, image_path)]
    /\ UNCHANGED <<program, codecVars, upi_data, hFiles, appVars>>

\* handler.encode_qr(data, output_path)
H_encode_qr(data, output_path, outcome) ==
    /\ program = "handler"
    /\ hCall.n < MaxCalls
    /\ hFiles' = SaveImage(hFiles, output_path, data, outcome)
    /\ hCall' = [op |-> "encode_qr", n |-> hCall.n + 1, data |-> data,
                 output_path |-> output_path, outcome |-> outcome,
                 result |-> (outcome = "ok")]
    /\ UNCHANGED <<program, codecVars, upi_data, appVars>>

\* handler.decode_and_encode(input_image, output_image, modify_params)
H_decode_and_encode(input_image, output_image, modify_params, outcome) ==
    LET r == DecodeAndEncode(hFiles, upi_data, input_image, output_image,
                             modify_params, outcome)
    IN  /\ program = "handler"
        /\ hCall.n < MaxCalls
        \* an encoding failure needs the call to reach encode_qr
        /\ outcome # "ok" => r.encoded
        /\ hFiles' = r.files
        /\ upi_data' = r.upi_data
        /\ hCall' = [op |-> "decode_and_encode", n |-> hCall.n + 1,
                     input_image |-> input_image, output_image |-> output_image,
                     modify_params |-> modify_params, outcome |-> outcome,
                     decoded_data |-> r.decoded_data, is_upi |-> r.is_upi,
                     original |-> r.original, upi_params |-> r.upi_params,
                     new_data |-> r.new_data, encoded |-> r.encoded,
                     result |-> r.result, before |-> hFiles]
        /\ UNCHANGED <<program, codecVars, appVars>>

NextHandler ==
    \/ \E path \in HandlerPaths : H_decode_qr(path)
    \/ \E data \in {UPI_TEXT, OTHER_TEXT}, outcome \in EncodeOutcomes :
          H_encode_qr(data, OUT_PNG, outcome)
    \/ \E modify_params \in ModifyParams, outcome \in EncodeOutcomes :
          H_decode_and_encode(IN_PNG, OUT_PNG, modify_params, outcome)

-----------------------------------------------------------------------------
(* app.py: the routes /decode, /generate and /modify, served concurrently *)

MaxClock == 1       \* seconds int(time.time()) advances by

\* the requests served, possibly at the same time (threaded server)
ReqIds == {1, 2}

\* file names a client sends: two that secure_filename() makes the same, one
\* of another name, one with an extension /decode refuses, and none
ClientFilenames == {"a.png", "../a.png", "b.jpg", "c.txt", ""}

\* werkzeug's secure_filename(): path separators and leading dots go
secure_filename(filename) == IF filename = "../a.png" THEN "a.png" ELSE filename

\* allowed_file(filename): the extension is one of ALLOWED_EXTENSIONS
allowed_file(filename) == filename \in {"a.png", "../a.png", "b.jpg"}

UploadedImages == {Unreadable, Blank, BadUtf8, QrOf(UPI_TEXT), QrOf(OTHER_TEXT)}

\* request.json of /generate
GenerateData ==
    {<<>>,
     << <<F_amount, <<"1">> >> >>,
     << <<F_payee_address, <<"a">> >>, <<F_amount, <<>> >> >>}

\* request.form of /modify
Modifications ==
    {<<>>,
     << <<<<"f", "i", "l", "e">>, <<"1">> >>, <<F_amount, <<"2">> >> >>,
     << <<F_amount, <<>> >>, <<F_transaction_note, <<"a", " ", "m">> >> >>}

NO_FILE_SELECTED == "No file selected"
INVALID_FILE_TYPE == "Invalid file type. Allowed: PNG, JPG, JPEG, GIF, BMP"
NO_DATA == "No data provided"
NOT_UPI_QR == "Not a UPI QR code"
DATA_OVERFLOW == "Invalid version (was 41, expected 1 to 40)"
SAVE_ERROR == "[Errno 28] No space left on device"

\* f"qr_{int(time.time())}.png" and f"modified_qr_{int(time.time())}.png"
GeneratedName(prefix, t) == <<prefix, t>>

NoResponse == [status |-> 0, error |-> NoneVal]

IdleReq ==
    [kind |-> "none", pc |-> "idle", filename |-> "", image |-> Blank,
     data |-> <<>>, img |-> NoneVal, qr_data |-> NoneVal, upi_params |-> <<>>,
     upi_string |-> <<>>, out_name |-> NoneVal, response |-> NoResponse]

ErrorResponse(msg) == [status |-> 400, error |-> Some(msg)]

InitApp ==
    /\ program = "app"
    /\ CodecIdle
    /\ HandlerIdle
    /\ uploads = <<>>
    /\ generated = <<>>
    /\ clock = 0
    /\ req = [i \in ReqIds |-> IdleReq]

\* generate_qr_code(data, filename): the pair (filepath, error)
generate_qr_code(filename, outcome) ==
    IF outcome = "ok" THEN [filepath |-> Some(filename), error |-> NoneVal]
    ELSE IF outcome = "raise_before"
    THEN [filepath |-> NoneVal, error |-> Some(DATA_OVERFLOW)]
    ELSE [filepath |-> NoneVal, error |-> Some(SAVE_ERROR)]

\* what cv2.imread(image_path) was given to read: the file, None if missing
FileAt(files, path) ==
    IF DictHas(files, path) THEN Some(DictGet(files, path)) ELSE NoneVal

\* qr_code_to_base64(filepath): the file's content, None when open() raises
qr_code_to_base64(files, filepath) ==
    IF DictHas(files, filepath) THEN Some(DictGet(files, filepath)) ELSE NoneVal

RECURSIVE ApplyModifications(_, _)
\* for key, value in modifications.items():
\*     if key != 'file' and value: upi_params[key] = value
ApplyModifications(upi_params, modifications) ==
    IF modifications = <<>> THEN upi_params
    ELSE ApplyModifications(
             IF modifications[1][1] # <<"f", "i", "l", "e">> /\ modifications[1][2] # <<>>
             THEN DictSet(upi_params, modifications[1][1], modifications[1][2])
             ELSE upi_params,
             Tail(modifications))

\* /decode's JSON once decode_qr_code returned d
DecodeResponse(d) ==
    IF ~IsNone(d.error) THEN ErrorResponse(d.error.v)
    ELSE IF StartsWith(d.qr_data.v, UPI_PREFIX)
    THEN LET p == parse_upi_string(d.qr_data.v) IN
         IF IsNone(p.error)
         THEN [status |-> 200, error |-> NoneVal, raw_data |-> d.qr_data.v,
               is_upi |-> TRUE, upi_data |-> p.params.v]
         ELSE [status |-> 200, error |-> NoneVal, raw_data |-> d.qr_data.v,
               is_upi |-> FALSE]
    ELSE [status |-> 200, error |-> NoneVal, raw_data |-> d.qr_data.v,
          is_upi |-> FALSE]

\* /decode, to file.save(filepath)
DecodeUpload(i, filename, image) ==
    /\ program = "app"
    /\ req[i].pc = "idle"
    \* requests are numbered in the order they arrive
    /\ \A j \in 1..(i - 1) : req[j].pc # "idle"
    /\ IF filename = ""
       THEN /\ req' = [req EXCEPT ![i] = [@ EXCEPT !.kind = "decode", !.pc = "done",
                          !.filename = filename, !.image = image,
                          !.response = ErrorResponse(NO_FILE_SELECTED)]]
            /\ UNCHANGED uploads
       ELSE IF ~allowed_file(filename)
       THEN /\ req' = [req EXCEPT ![i] = [@ EXCEPT !.kind = "decode", !.pc = "done",
                          !.filename = filename, !.image = image,
                          !.response = ErrorResponse(INVALID_FILE_TYPE)]]
            /\ UNCHANGED uploads
       ELSE /\ req' = [req EXCEPT ![i] = [@ EXCEPT !.kind = "decode", !.pc = "saved",
                          !.filename = filename, !.image = image]]
            /\ uploads' = DictSet(uploads, secure_filename(filename), image)
    /\ UNCHANGED <<program, codecVars, handlerVars, generated, clock>>

\* /decode, from decode_qr_code(filepath) to the response
DecodeRespond(i) ==
    /\ program = "app"
    /\ req[i].kind = "decode"
    /\ req[i].pc = "saved"
    /\ LET d == decode_qr_code(uploads, secure_filename(req[i].filename)) IN
       req' = [req EXCEPT ![i] = [@ EXCEPT !.pc = "done", !.qr_data = d.qr_data,
                      !.img = FileAt(uploads, secure_filename(req[i].filename)),
                      !.response = DecodeResponse(d)]]
    /\ UNCHANGED <<program, codecVars, handlerVars, uploads, generated, clock>>

\* /generate, to generate_qr_code's return
Generate(i, data, outcome) ==
    /\ program = "app"
    /\ req[i].pc = "idle"
    /\ \A j \in 1..(i - 1) : req[j].pc # "idle"
    /\ IF data = <<>>                           \* if not data
       THEN /\ outcome = "ok"
            /\ req' = [req EXCEPT ![i] = [@ EXCEPT !.kind = "generate", !.pc = "done",
                          !.data = data, !.response = ErrorResponse(NO_DATA)]]
            /\ UNCHANGED generated
       ELSE LET upi_string == create_upi_string(data)
                filename == GeneratedName("qr_", clock)
                g == generate_qr_code(filename, outcome)
            IN  /\ generated' = SaveImage(generated, filename, upi_string, outcome)
                /\ req' = [req EXCEPT ![i] =
                      [@ EXCEPT !.kind = "generate", !.data = data,
                                !.upi_string = upi_string,
                                !.out_name = Some(filename),
                                !.pc = IF IsNone(g.error) THEN "written" ELSE "done",
                                !.response = IF IsNone(g.error) THEN NoResponse
                                             ELSE ErrorResponse(g.error.v)]]
    /\ UNCHANGED <<program, codecVars, handlerVars, uploads, clock>>

\* /modify, to file.save(filepath)
ModifyUpload(i, filename, image, modifications) ==
    /\ program = "app"
    /\ req[i].pc = "idle"
    /\ \A j \in 1..(i - 1) : req[j].pc # "idle"
    /\ IF filename = ""
       THEN /\ req' = [req EXCEPT ![i] = [@ EXCEPT !.kind = "modify", !.pc = "done",
                          !.filename = filename, !.image = image,
                          !.data = modifications,
                          !.response = ErrorResponse(NO_FILE_SELECTED)]]
            /\ UNCHANGED uploads
       ELSE /\ req' = [req EXCEPT ![i] = [@ EXCEPT !.kind = "modify", !.pc = "saved",
                          !.filename = filename, !.image = image,
                          !.data = modifications]]
            /\ uploads' = DictSet(uploads, secure_filename(filename), image)
    /\ UNCHANGED <<program, codecVars, handlerVars, generated, clock>>

\* /modify, from decode_qr_code(filepath) to generate_qr_code's return
ModifyEncode(i, outcome) ==
    /\ program = "app"
    /\ req[i].kind = "modify"
    /\ req[i].pc = "saved"
    /\ LET d == decode_qr_code(uploads, secure_filename(req[i].filename)) IN
       IF ~IsNone(d.error)
       THEN /\ outcome = "ok"
            /\ req' = [req EXCEPT ![i] = [@ EXCEPT !.pc = "done",
                          !.img = FileAt(uploads, secure_filename(req[i].filename)),
                          !.response = ErrorResponse(d.error.v)]]
            /\ UNCHANGED generated
       ELSE IF ~StartsWith(d.qr_data.v, UPI_PREFIX)
       THEN /\ outcome = "ok"
            /\ req' = [req EXCEPT ![i] = [@ EXCEPT !.pc = "done", !.qr_data = d.qr_data,
                          !.img = FileAt(uploads, secure_filename(req[i].filename)),
                          !.response = ErrorResponse(NOT_UPI_QR)]]
            /\ UNCHANGED generated
       ELSE LET p == parse_upi_string(d.qr_data.v)
                upi_params == ApplyModifications(p.params.v, req[i].data)
                new_upi_string == create_upi_string(upi_params)
                new_filename == GeneratedName("modified_qr_", clock)
                g == generate_qr_code(new_filename, outcome)
            IN  /\ generated' = SaveImage(generated, new_filename, new_upi_string, outcome)
                /\ req' = [req EXCEPT ![i] =
                      [@ EXCEPT !.qr_data = d.qr_data,
                                !.img = FileAt(uploads, secure_filename(req[i].filename)),
                                !.upi_params = upi_params,
                                !.upi_string = new_upi_string,
                                !.out_name = Some(new_filename),
                                !.pc = IF IsNone(g.error) THEN "written" ELSE "done",
                                !.response = IF IsNone(g.error) THEN NoResponse
                                             ELSE ErrorResponse(g.error.v)]]
    /\ UNCHANGED <<program, codecVars, handlerVars, uploads, clock>>

\* /generate and /modify, from qr_code_to_base64(filepath) to the response
EncodeRespond(i) ==
    /\ program = "app"
    /\ req[i].pc = "written"
    /\ req' = [req EXCEPT ![i] = [@ EXCEPT !.pc = "done",
                  !.response =
                      [status |-> 200, error |-> NoneVal, success |-> TRUE,
                       original_data |-> req[i].upi_params,
                       upi_string |-> req[i].upi_string,
                       image_base64 |-> qr_code_to_base64(generated, req[i].out_name.v),
                       download_url |-> req[i].out_name.v]]]
    /\ UNCHANGED <<program, codecVars, handlerVars, uploads, generated, clock>>

\* a second passes
Tick ==
    /\ program = "app"
    /\ clock < MaxClock
    /\ clock' = clock + 1
    /\ UNCHANGED <<program, codecVars, handlerVars, uploads, generated, req>>

NextApp ==
    \/ \E i \in ReqIds, filename \in ClientFilenames, image \in UploadedImages :
          DecodeUpload(i, filename, image)
    \/ \E i \in ReqIds : DecodeRespond(i)
    \/ \E i \in ReqIds, data \in GenerateData, outcome \in EncodeOutcomes :
          Generate(i, data, outcome)
    \/ \E i \in ReqIds, filename \in ClientFilenames, image \in UploadedImages,
          modifications \in Modifications :
          ModifyUpload(i, filename, image, modifications)
    \/ \E i \in ReqIds, outcome \in EncodeOutcomes : ModifyEncode(i, outcome)
    \/ \E i \in ReqIds : EncodeRespond(i)
    \/ Tick

-----------------------------------------------------------------------------
(* The two programs of the repository: the script that drives UPIQRHandler
   (qr_handler.py, example.py) and the web application (app.py) *)

Init == InitHandler \/ InitApp

Next == NextHandler \/ NextApp

Spec == Init /\ [][Next]_vars

-----------------------------------------------------------------------------
(* The codec's claims, over SpecCodec *)

ReservedChars == {"&", "=", "?", "#", " "}

NoReserved(v) == \A i \in 1..Len(v) : v[i] \notin ReservedChars

\* a dict of recognized fields with non-empty values free of reserved characters
C1_Pre(r) ==
    \A i \in 1..Len(r) :
        r[i][1] \in RecognizedFields /\ r[i][2] # <<>> /\ NoReserved(r[i][2])

\* C1: for every record of recognized fields whose values are non-empty and
\* hold no reserved character, parsing the serialized record gives the record
\* back, same keys and same values, in app.py and in UPIQRHandler.
C1_RoundTrip ==
    (cPhase = "reparsed" /\ C1_Pre(cRec)) =>
        /\ IsNone(cParsed.app.error)
        /\ ~IsNone(cParsed.app.params)
        /\ DictItems(cParsed.app.params.v) = DictItems(cRec)
        /\ DictItems(cParsed.handler) = DictItems(cRec)

\* C1's case: two recognized fields, one value with a "%" that quote()
\* escapes, serialized and parsed back
C1_Witness ==
    /\ cPhase = "reparsed"
    /\ C1_Pre(cRec)
    /\ Len(cRec) = 2
    /\ \E i \in 1..Len(cRec) : cRec[i][2] = <<"%", "4", "1">>
    /\ Len(cUri.app) > Len(UPI_PAY) + 8

\* C3: a text that does not begin with "upi://" fails to parse with the
\* not-this-scheme outcome, whatever follows, and that outcome differs from
\* the (successful, empty) parse of a scheme URI with no query.
C3_NotThisSchemeDistinct ==
    (cPhase = "parsed" /\ ~StartsWith(cText, UPI_PREFIX)) =>
        /\ cParsed.app = [params |-> NoneVal, error |-> Some(NOT_UPI)]
        /\ cParsed.app # parse_upi_string(SCHEME_NO_QUERY)
        /\ cParsed.handler # UPIQRHandler_parse_upi_string(SCHEME_NO_QUERY)

\* the "&"-separated pieces of the query a URI was given
UriPieces(uri) == Split(SubSeq(uri, Len(UPI_PAY) + 1, Len(uri)), "&")

\* no item with an empty value is in the URI, and {} gives "upi://pay?"
OnlyNonEmptyEmitted(r, uri) ==
    /\ StartsWith(uri, UPI_PAY)
    /\ r = <<>> => uri = UPI_PAY
    /\ \A i \in 1..Len(r) :
          r[i][2] = <<>> =>
              \A j \in 1..Len(UriPieces(uri)) :
                  UriPieces(uri)[j] # MapGet(CreateMapping, r[i][1]) \o <<"=">>

\* C4: serialize emits key=value only for the fields whose value is not
\* empty, and the empty record serializes to exactly "upi://pay?", in app.py
\* and in UPIQRHandler.
C4_OnlyNonEmptyEmitted ==
    cPhase = "serialized" =>
        /\ OnlyNonEmptyEmitted(cRec, cUri.app)
        /\ OnlyNonEmptyEmitted(cRec, cUri.handler)

\* the query of a text as the pieces between "&", each a key and a value
\* split at its first "=" (no "=": an empty value), name and value decoded as
\* a query component is
QueryPieces(t) == Split(UrlQuery(t), "&")
PieceName(piece) == Unquote(Replace(Split1(piece, "=")[1], "+", " "))
PieceRawValue(piece) ==
    IF Len(Split1(piece, "=")) = 2 THEN Split1(piece, "=")[2] ELSE <<>>
PieceValue(piece) == Unquote(Replace(PieceRawValue(piece), "+", " "))

\* no other key of the query names the field of piece i
OnlyKeyOfField(ps, i) ==
    \A j \in 1..Len(ps) :
        (ps[j] # <<>> /\ PieceName(ps[j]) # PieceName(ps[i]))
            => MapGet(ParseMapping, PieceName(ps[j]))
                   # MapGet(ParseMapping, PieceName(ps[i]))

\* the record holds value v for the field the key of piece names, in app.py
\* and in UPIQRHandler
Stores(parsed, piece, v) ==
    LET field == MapGet(ParseMapping, PieceName(piece)) IN
    /\ ~IsNone(parsed.app.params)
    /\ DictHas(parsed.app.params.v, field)
    /\ DictGet(parsed.app.params.v, field) = v
    /\ DictHas(parsed.handler, field)
    /\ DictGet(parsed.handler, field) = v

\* C5 as claimed: of a key that occurs more than once in the query, the
\* record holds the value of the last occurrence.  (Stated for the keys all of
\* whose occurrences have a value, and that alone name their field.)
C5_LastWins ==
    (cPhase = "parsed" /\ StartsWith(cText, UPI_PREFIX)) =>
        LET ps == QueryPieces(cText) IN
        \A i \in 1..Len(ps) :
            ( /\ \E j \in 1..(i - 1) : PieceName(ps[j]) = PieceName(ps[i])
              /\ \A j \in (i + 1)..Len(ps) : PieceName(ps[j]) # PieceName(ps[i])
              /\ \A j \in 1..Len(ps) :
                    PieceName(ps[j]) = PieceName(ps[i]) => PieceRawValue(ps[j]) # <<>>
              /\ OnlyKeyOfField(ps, i) )
            => Stores(cParsed, ps[i], PieceValue(ps[i]))

\* piece i is the first occurrence of its key that has a non-empty value
FirstNonEmpty(ps, i) ==
    /\ PieceRawValue(ps[i]) # <<>>
    /\ \A j \in 1..(i - 1) :
          PieceName(ps[j]) = PieceName(ps[i]) => PieceRawValue(ps[j]) = <<>>

\* C5 as amended: of a key that occurs more than once in the query (and is
\* the only key of the query naming its field), the record holds the value of
\* the first occurrence whose value is not empty; later occurrences are
\* ignored.
C5_FirstNonEmptyWins ==
    (cPhase = "parsed" /\ StartsWith(cText, UPI_PREFIX)) =>
        LET ps == QueryPieces(cText) IN
        \A i \in 1..Len(ps) :
            (FirstNonEmpty(ps, i) /\ OnlyKeyOfField(ps, i))
                => Stores(cParsed, ps[i], PieceValue(ps[i]))

\* C5's case: one key three times with three different non-empty values
C5_Witness ==
    /\ cPhase = "parsed"
    /\ cText = UPI_PAY \o K_am \o <<"=", "2", "&">> \o K_am \o <<"=", "1", "&">>
                       \o K_am \o <<"=", "2">>
    /\ Stores(cParsed, K_am \o <<"=", "2">>, <<"2">>)

\* position i of v is a "%" that two hex digits do not follow
MalformedAt(v, i) ==
    /\ v[i] = "%"
    /\ ~(i + 2 <= Len(v) /\ v[i + 1] \in HexDigits /\ v[i + 2] \in HexDigits)

HasMalformedEscape(v) == \E i \in 1..Len(v) : MalformedAt(v, i)

\* position i of v is a "%" that two hex digits follow
WellFormedAt(v, i) == v[i] = "%" /\ ~MalformedAt(v, i)

CountPercent(v) == Cardinality({i \in 1..Len(v) : v[i] = "%"})

\* C8 as claimed: when a value of the query holds a truncated or non-hex
\* percent-escape, parse fails as a whole and returns no record.
C8_MalformedFails ==
    ( /\ cPhase = "parsed"
      /\ StartsWith(cText, UPI_PREFIX)
      /\ \E i \in 1..Len(QueryPieces(cText)) :
            HasMalformedEscape(PieceRawValue(QueryPieces(cText)[i])) )
    => /\ IsNone(cParsed.app.params)
       /\ ~IsNone(cParsed.app.error)

\* C8 as amended: a truncated or non-hex percent-escape in a value does not
\* fail the parse: a record is returned, and in the stored value every
\* malformed "%" is kept as literal text (a value with no well-formed escape
\* and no "+" is stored exactly as written).
C8_MalformedKept ==
    (cPhase = "parsed" /\ StartsWith(cText, UPI_PREFIX)) =>
        LET ps == QueryPieces(cText) IN
        /\ IsNone(cParsed.app.error)
        /\ ~IsNone(cParsed.app.params)
        /\ \A i \in 1..Len(ps) :
              LET raw == PieceRawValue(ps[i])
                  field == MapGet(ParseMapping, PieceName(ps[i]))
              IN  (FirstNonEmpty(ps, i) /\ OnlyKeyOfField(ps, i)) =>
                    /\ DictHas(cParsed.app.params.v, field)
                    /\ DictHas(cParsed.handler, field)
                    /\ DictGet(cParsed.handler, field)
                           = DictGet(cParsed.app.params.v, field)
                    /\ CountPercent(DictGet(cParsed.app.params.v, field))
                           >= Cardinality({k \in 1..Len(raw) : MalformedAt(raw, k)})
                    /\ (\A k \in 1..Len(raw) :
                            raw[k] # "+" /\ ~WellFormedAt(raw, k))
                         => DictGet(cParsed.app.params.v, field) = raw

\* C8's case: a value with a non-hex escape next to a well-formed one, parsed
\* and stored with the non-hex escape as text
C8_Witness ==
    /\ cPhase = "parsed"
    /\ cText = UPI_PAY \o K_am \o <<"=", "%", "z", "z", "%", "4", "1">>
    /\ ~IsNone(cParsed.app.params)
    /\ cParsed.app.params.v = << <<F_amount, <<"%", "z", "z", "A">> >> >>

-----------------------------------------------------------------------------
(* The pipeline's claims, over Spec *)

\* the value the claimed merge gives field f
MergedValue(decoded, overrides, f) ==
    IF DictHas(overrides, f) /\ DictGet(overrides, f) # <<>>
    THEN DictGet(overrides, f)
    ELSE DictGet(decoded, f)

\* merged is the field-wise merge of decoded and overrides: every field of
\* decoded and every field with a non-empty override is in it, with the
\* merge's value
IsFieldWiseMerge(merged, decoded, overrides) ==
    \A f \in DictKeys(decoded)
              \cup {g \in DictKeys(overrides) : DictGet(overrides, g) # <<>>} :
        /\ DictHas(merged, f)
        /\ DictGet(merged, f) = MergedValue(decoded, overrides, f)

\* C2: the record decode_and_encode serializes is the field-wise merge of the
\* decoded record and the overrides: an override with a non-empty value
\* replaces the field, an empty override never blanks a field, a field with
\* no override is unchanged.
C2_FieldWiseMerge ==
    (hCall.op = "decode_and_encode" /\ hCall.is_upi) =>
        /\ IsFieldWiseMerge(hCall.upi_params, hCall.original,
                            IF IsNone(hCall.modify_params) THEN <<>>
                            ELSE hCall.modify_params.v)
        /\ hCall.new_data = UPIQRHandler_create_upi_string(hCall.upi_params)

\* a payload was decoded and it is not of the scheme
NonScheme(qr_data) == ~IsNone(qr_data) /\ ~StartsWith(qr_data.v, UPI_PREFIX)

\* C6 as claimed: decode-modify-encode of an image whose payload does not
\* begin with "upi://" fails: the encoder is not invoked, no output image is
\* written and no success is reported, in UPIQRHandler and in /modify.
C6_NonSchemeRefused ==
    /\ (hCall.op = "decode_and_encode" /\ NonScheme(hCall.decoded_data)) =>
          /\ ~hCall.encoded
          /\ ~hCall.result
          /\ hFiles = hCall.before
    /\ \A i \in DOMAIN req :
          (req[i].kind = "modify" /\ req[i].pc = "done" /\ NonScheme(req[i].qr_data)) =>
              /\ req[i].response = ErrorResponse(NOT_UPI_QR)
              /\ IsNone(req[i].out_name)

\* C6 as amended: /modify of an image whose payload does not begin with
\* "upi://" fails with "Not a UPI QR code" and never reaches the encoder;
\* UPIQRHandler.decode_and_encode of such an image (payload not empty) ignores
\* the overrides, encodes the decoded payload unchanged and returns the
\* encoder's result; an empty payload fails before the encoder.
C6_NonSchemeModify ==
    /\ \A i \in DOMAIN req :
          (req[i].kind = "modify" /\ req[i].pc = "done" /\ NonScheme(req[i].qr_data)) =>
              /\ req[i].response = ErrorResponse(NOT_UPI_QR)
              /\ IsNone(req[i].out_name)
              /\ req[i].upi_string = <<>>
    /\ (hCall.op = "decode_and_encode" /\ NonScheme(hCall.decoded_data)) =>
          IF hCall.decoded_data.v = <<>>
          THEN ~hCall.encoded /\ ~hCall.result /\ hFiles = hCall.before
          ELSE /\ hCall.encoded
               /\ hCall.new_data = hCall.decoded_data.v
               /\ hCall.result = (hCall.outcome = "ok")
               /\ hCall.result =>
                     /\ DictHas(hFiles, hCall.output_image)
                     /\ DictGet(hFiles, hCall.output_image) = QrOf(hCall.decoded_data.v)

\* C6's case: the handler re-encoded a payload that is not of the scheme,
\* overrides given
C6_Witness ==
    /\ hCall.op = "decode_and_encode"
    /\ hCall.decoded_data = Some(OTHER_TEXT)
    /\ Truthy(hCall.modify_params)
    /\ hCall.result
    /\ DictGet(hFiles, OUT_PNG) = QrOf(OTHER_TEXT)

\* C7 as claimed: decoding a readable image with no QR symbol returns an
\* outcome that differs from the one for an image that cannot be read and
\* from the one for a raised exception, in UPIQRHandler and in app.py.
C7_NoQrFoundDistinct ==
    /\ (hCall.op = "decode_qr" /\ hCall.image = Some(Blank)) =>
          /\ hCall.result # UPIQRHandler_decode_qr(<< <<IN_PNG, Unreadable>> >>, IN_PNG)
          /\ hCall.result # UPIQRHandler_decode_qr(<< <<IN_PNG, BadUtf8>> >>, IN_PNG)
    /\ \A i \in DOMAIN req :
          (req[i].pc = "done" /\ req[i].img = Some(Blank)) =>
              /\ req[i].response # ErrorResponse(COULD_NOT_READ)
              /\ req[i].response # ErrorResponse(UTF8_ERROR)

\* C7 as amended: app.py's decode_qr_code answers a readable image with no
\* QR symbol with "No QR code found in image", an image that cannot be read
\* with "Could not read image" and a raised exception with its message, three
\* different answers; UPIQRHandler.decode_qr returns None in all three cases.
C7_DecodeFailures ==
    /\ \A i \in DOMAIN req :
          (req[i].pc = "done" /\ ~IsNone(req[i].img)) =>
              /\ req[i].img.v = Blank => req[i].response = ErrorResponse(NO_QR_FOUND)
              /\ req[i].img.v.kind \in {"unreadable", "partial"} =>
                    req[i].response = ErrorResponse(COULD_NOT_READ)
              /\ req[i].img.v = BadUtf8 => req[i].response = ErrorResponse(UTF8_ERROR)
              /\ req[i].response = ErrorResponse(NO_QR_FOUND) => req[i].img.v = Blank
    /\ hCall.op = "decode_qr" =>
          (IsNone(hCall.result) <=>
              \/ IsNone(hCall.image)
              \/ hCall.image.v.kind \in {"blank", "unreadable", "partial", "badutf8"})

\* C7's case: /decode answered an image with no QR symbol
C7_Witness ==
    \E i \in DOMAIN req :
        /\ req[i].kind = "decode"
        /\ req[i].pc = "done"
        /\ req[i].img = Some(Blank)
        /\ req[i].response = ErrorResponse(NO_QR_FOUND)

\* the URI /modify makes of the image and the modifications of request r
OwnModifiedUri(r) ==
    create_upi_string(
        ApplyModifications(parse_upi_string(r.image.data).params.v, r.data))

\* the response and the output file of request r are those of its own URI
OwnArtifact(r, uri) ==
    r.response.status = 200 =>
        /\ r.response.upi_string = uri
        /\ r.response.image_base64 = Some(QrOf(uri))
        /\ FileAt(generated, r.response.download_url) = Some(QrOf(uri))

\* the response of a finished request r is the one it gets when it runs alone
AsIfAlone(r) ==
    LET name == secure_filename(r.filename)
        own == decode_qr_code(<< <<name, r.image>> >>, name)
    IN  /\ (r.kind = "decode" /\ allowed_file(r.filename)) =>
              r.response = DecodeResponse(own)
        /\ (r.kind = "generate" /\ r.data # <<>>) =>
              OwnArtifact(r, create_upi_string(r.data))
        /\ (r.kind = "modify" /\ r.filename # "") =>
              IF ~IsNone(own.error) THEN r.response = ErrorResponse(own.error.v)
              ELSE IF ~StartsWith(own.qr_data.v, UPI_PREFIX)
              THEN r.response = ErrorResponse(NOT_UPI_QR)
              ELSE /\ r.response.status = 400 =>
                         r.response.error \in {Some(DATA_OVERFLOW), Some(SAVE_ERROR)}
                   /\ OwnArtifact(r, OwnModifiedUri(r))

\* C9: under any interleaving of /decode, /generate and /modify requests,
\* each finished request has the result it has when run alone: the decoded
\* text is that of its own upload, and the returned image and the file its
\* download identifier names encode its own URI.
C9_NoInterference ==
    \A i \in DOMAIN req : req[i].pc = "done" => AsIfAlone(req[i])

\* C10: a request or call that ends in a failure leaves no partly written
\* output file at its destination, and one that reports success has its
\* complete output file there.
C10_NoPartialArtifact ==
    /\ \A i \in DOMAIN req :
          (req[i].pc = "done" /\ ~IsNone(req[i].out_name)) =>
              /\ req[i].response.status = 400 =>
                    FileAt(generated, req[i].out_name.v) # Some(Partial)
              /\ req[i].response.status = 200 =>
                    /\ DictHas(generated, req[i].out_name.v)
                    /\ DictGet(generated, req[i].out_name.v).kind = "qr"
    /\ (hCall.op = "encode_qr" /\ ~hCall.result) =>
          FileAt(hFiles, hCall.output_path) # Some(Partial)
    /\ (hCall.op = "decode_and_encode" /\ ~hCall.result) =>
          FileAt(hFiles, hCall.output_image) # Some(Partial)

\* the record parse_upi_string gives for the decoded payload, before any
\* override is applied
ParsedBefore(qr_data) == parse_upi_string(qr_data).params.v

\* C11: decode-modify-encode with a non-empty set of overrides leaves the
\* decoded record unchanged: the original record /modify returns
\* ('original_data'), and the record UPIQRHandler keeps from the parse
\* (self.upi_data), equal the record parsed from the input image before the
\* overrides were applied.
C11_OriginalUnchanged ==
    /\ \A i \in DOMAIN req :
          ( /\ req[i].kind = "modify"
            /\ req[i].pc = "done"
            /\ req[i].response.status = 200
            /\ req[i].data # <<>> ) =>
              req[i].response.original_data = ParsedBefore(req[i].qr_data.v)
    /\ ( /\ hCall.op = "decode_and_encode"
         /\ hCall.is_upi
         /\ Truthy(hCall.modify_params) ) =>
           upi_data = UPIQRHandler_parse_upi_string(hCall.decoded_data.v)

\* the short key a piece of an emitted query begins with
ShortKeyOf(piece) == Split1(piece, "=")[1]

\* no two pieces of the URI's query have the same short key
EachShortKeyOnce(uri) ==
    LET ps == UriPieces(uri) IN
    \A i, j \in 1..Len(ps) :
        (i # j /\ ps[i] # <<>>) => ShortKeyOf(ps[i]) # ShortKeyOf(ps[j])

\* C12: the URI emitted after parse, override merge and serialize has each
\* short key at most once, also when an override is named by a short key
\* ('am') while the parsed record holds the semantic field ('amount').
C12_ShortKeysOnce ==
    /\ (hCall.op = "decode_and_encode" /\ hCall.is_upi) =>
          EachShortKeyOnce(hCall.new_data)
    /\ \A i \in DOMAIN req :
          StartsWith(req[i].upi_string, UPI_PAY) => EachShortKeyOnce(req[i].upi_string)

====
